---- MODULE Spec2Model ----
(***************************************************************************)
(* tlser: keeps a Kubernetes TLS secret in step with a certificate         *)
(* specification given on the command line.                                *)
(*                                                                         *)
(* The model follows src/tlser.go: main (flag checks, mode selection, the  *)
(* one-shot call and the polling loop), readPem, readCa and the k8sAdapter *)
(* (getSecret, setSecret).  syncer.sync, generateSignedCert, parseCertPair *)
(* and the drift decision are not part of src/tlser.go; they are modelled  *)
(* from sections 4.2 - 4.5 of the specification.                           *)
(*                                                                         *)
(* Time is counted in days (the unit of -expire).  Strings that the        *)
(* program splits are sequences of lexical atoms, "," being the separator. *)
(***************************************************************************)
EXTENDS Integers, Sequences, FiniteSets, TLC

\* ------------------------------------------------------------------ bounds
\* The clock runs from 0 to MaxTime days.
MaxTime == 2
\* At most MaxCycles reconciliation cycles are started in one run.
MaxCycles == 2

\* ------------------------------------------------------------------ values
SvcCN == "svc.example.com"
OldCN == "old.example.com"
Sep == ","
LoopbackV6 == "::1"
LoopbackV6Long == "0:0:0:0:0:0:0:1"

\* Values the flags are drawn from.
SubjectFlags == {"", SvcCN}
IntervalFlags == {"", "bogus", "0s", "12h", "24h"}
\* -dns and -ip: none, or two names (in another order than the stored
\* certificates list them) and one address (in its long spelling).
SanFlags == {[dns |-> <<>>, ip |-> <<>>],
             [dns |-> <<"b", Sep, "a">>, ip |-> <<LoopbackV6Long>>]}
ExpireFlags == {0, 1, 2}
NameFlags == {"", "tls"}
NamespaceFlags == {"", "ops"}
LabelFlags == {{"app=web"}}

Range(s) == {s[i] : i \in 1..Len(s)}

\* ------------------------------------------------------ library functions
\* strings.Split(s, ","): the fields between the separators, in order; an
\* empty field stays in the result.
RECURSIVE SplitFrom(_, _, _)
SplitFrom(s, i, field) ==
  IF i > Len(s) THEN <<field>>
  ELSE IF s[i] = Sep THEN <<field>> \o SplitFrom(s, i + 1, <<>>)
  ELSE SplitFrom(s, i + 1, Append(field, s[i]))

Split(s) == SplitFrom(s, 1, <<>>)

\* time.ParseDuration on the interval strings used here, in hours.
ParseDuration(s) ==
  CASE s = "0s" -> [err |-> "nil", d |-> 0]
    [] s = "12h" -> [err |-> "nil", d |-> 12]
    [] s = "24h" -> [err |-> "nil", d |-> 24]
    [] OTHER -> [err |-> "invalid duration", d |-> 0]

\* time.Sleep(d) returns once d has passed: the number of whole days the
\* clock must have advanced before it can return (24 hours to the day).
SleepDays(d) == d \div 24

\* net.ParseIP followed by its canonical form: two spellings of one address
\* give one value.
ParseIP(field) ==
  IF field = <<LoopbackV6>> \/ field = <<LoopbackV6Long>> THEN LoopbackV6
  ELSE IF field = <<"10.0.0.1">> THEN "10.0.0.1"
  ELSE "invalid"

ParseIPs(ipStrings) == [i \in 1..Len(ipStrings) |-> ParseIP(ipStrings[i])]

\* ------------------------------------------------------------- CA material
\* A file: whether it can be read, whether it holds a PEM block, and the
\* bytes of that block.
File(exists, pem, der) == [exists |-> exists, pem |-> pem, der |-> der]
MissingFile == File(FALSE, FALSE, "")
CrtFiles == {MissingFile, File(TRUE, FALSE, ""), File(TRUE, TRUE, "junk"),
             File(TRUE, TRUE, "cert:A")}
KeyFiles == {MissingFile, File(TRUE, FALSE, ""), File(TRUE, TRUE, "junk"),
             File(TRUE, TRUE, "key:A"), File(TRUE, TRUE, "key:B")}

NoSigner == [cert |-> "", key |-> ""]

readPem(file) ==
  IF ~file.exists THEN [err |-> "unable to read", bytes |-> ""]
  ELSE IF ~file.pem THEN [err |-> "unable to decode", bytes |-> ""]
  ELSE [err |-> "nil", bytes |-> file.der]

\* Parses the CA certificate and the CA private key into a signer.
parseCertPair(certBytes, keyBytes) ==
  IF certBytes # "cert:A" THEN [err |-> "unable to parse certificate", signer |-> NoSigner]
  ELSE IF keyBytes \notin {"key:A", "key:B"}
    THEN [err |-> "unable to parse key", signer |-> NoSigner]
  ELSE [err |-> "nil",
        signer |-> [cert |-> "A", key |-> IF keyBytes = "key:A" THEN "A" ELSE "B"]]

\* CA material that is missing, undecodable or unparsable.
BadCa(cacrt, cakey) ==
  \/ ~cacrt.exists \/ ~cacrt.pem \/ cacrt.der = "junk"
  \/ ~cakey.exists \/ ~cakey.pem \/ cakey.der = "junk"

\* readCa returning no error when the certificate file cannot be read or decoded.
readCaDropsError(cacrt, cakey) ==
  LET c == readPem(cacrt) IN
  IF c.err # "nil" THEN [err |-> "nil", signer |-> NoSigner]
  ELSE LET k == readPem(cakey) IN
    IF k.err # "nil" THEN [err |-> k.err, signer |-> NoSigner]
    ELSE parseCertPair(c.bytes, k.bytes)

readCa(cacrt, cakey) ==
  LET c == readPem(cacrt) IN
  IF c.err # "nil" THEN [err |-> c.err, signer |-> NoSigner]
  ELSE LET k == readPem(cakey) IN
    IF k.err # "nil" THEN [err |-> k.err, signer |-> NoSigner]
    ELSE parseCertPair(c.bytes, k.bytes)

\* ------------------------------------------------------------ certificates
\* The DER form of a certificate (its alternative names are lists, in the
\* order they were given), and bytes that are no certificate.
Cert(cn, dnsNames, ipAddresses, notAfter, pub) ==
  [valid |-> TRUE, cn |-> cn, dns |-> dnsNames, ip |-> ipAddresses,
   notAfter |-> notAfter, pub |-> pub]
JunkDer == [valid |-> FALSE, cn |-> "", dns |-> <<>>, ip |-> <<>>, notAfter |-> 0, pub |-> 0]

\* pem.EncodeToMemory / pem.Decode of one block.
PemEncode(kind, der) == [pem |-> TRUE, kind |-> kind, der |-> der]
NoPem == [pem |-> FALSE, kind |-> "", der |-> JunkDer]
PemDecode(blob) == IF blob.pem THEN [ok |-> TRUE, der |-> blob.der]
                   ELSE [ok |-> FALSE, der |-> JunkDer]

\* Decodes and parses a stored tls.crt.
ParseStoredCert(blob) ==
  LET d == PemDecode(blob) IN
  IF d.ok /\ blob.kind = "CERTIFICATE" /\ d.der.valid
    THEN [ok |-> TRUE, cert |-> d.der]
    ELSE [ok |-> FALSE, cert |-> JunkDer]

\* A leaf certificate for the specification, signed by the CA, and its key.
generateSignedCert(subj, ipStrings, dnsStrings, expire, rsaKey, sgn, at) ==
  IF sgn.key # sgn.cert
    THEN [err |-> "signing failed", cert |-> NoPem, key |-> 0]
    ELSE [err |-> "nil",
          cert |-> PemEncode("CERTIFICATE",
                     Cert(subj, dnsStrings, ParseIPs(ipStrings), at + expire, rsaKey)),
          key |-> rsaKey]

\* ---------------------------------------------------------- drift decision
\* The decision with the alternative names compared as lists.
DriftReasonByList(subj, ipStrings, dnsStrings, present, cert, at) ==
  IF ~present THEN "missing"
  ELSE IF cert.notAfter <= at THEN "expired"
  ELSE IF cert.cn # subj THEN "subject changed"
  ELSE IF cert.dns # dnsStrings \/ cert.ip # ParseIPs(ipStrings) THEN "SAN changed"
  ELSE "in sync"

\* The decision with renewal a day ahead of the expiry.
DriftReasonRenewsEarly(subj, ipStrings, dnsStrings, present, cert, at) ==
  IF ~present THEN "missing"
  ELSE IF cert.notAfter <= at + 1 THEN "expired"
  ELSE IF cert.cn # subj THEN "subject changed"
  ELSE IF Range(cert.dns) # Range(dnsStrings)
          \/ Range(cert.ip) # Range(ParseIPs(ipStrings))
    THEN "SAN changed"
  ELSE "in sync"

\* The decision and its reason for a desired specification, a stored
\* certificate (or none) and the current time.
DriftReason(subj, ipStrings, dnsStrings, present, cert, at) ==
  IF ~present THEN "missing"
  ELSE IF cert.notAfter <= at THEN "expired"
  ELSE IF cert.cn # subj THEN "subject changed"
  ELSE IF Range(cert.dns) # Range(dnsStrings)
          \/ Range(cert.ip) # Range(ParseIPs(ipStrings))
    THEN "SAN changed"
  ELSE "in sync"

needsRegeneration(subj, ipStrings, dnsStrings, present, cert, at) ==
  DriftReason(subj, ipStrings, dnsStrings, present, cert, at) # "in sync"

\* ------------------------------------------------------------------- store
\* A secret: its tls.crt and tls.key blobs and its labels.
Secret(crt, key, labels) == [crt |-> crt, key |-> key, labels |-> labels]
EmptySecret == Secret(NoPem, 0, {})

Absent == [exists |-> FALSE, secret |-> EmptySecret]
Stored(s) == [exists |-> TRUE, secret |-> s]

\* What the store may hold for the target before the run: nothing, a secret
\* whose tls.crt is no certificate, or a certificate issued earlier (expired
\* at day 0 or valid until day 2; for this subject or another; with or
\* without alternative names).
StoredSans == {[dns |-> <<>>, ip |-> <<>>],
               [dns |-> << <<"a">>, <<"b">> >>, ip |-> <<LoopbackV6>>]}
StoredCerts == {Cert(cn, san.dns, san.ip, na, 0) :
                  cn \in {SvcCN, OldCN}, san \in StoredSans, na \in {0, 2}}
InitialStores ==
  {Absent, Stored(Secret(NoPem, 0, {}))}
    \cup {Stored(Secret(PemEncode("CERTIFICATE", c), 0, {})) : c \in StoredCerts}

\* Secrets(ns).Get of the client: the secret, a NotFound status when there
\* is none, or a transport/auth error.
clientGet(st, fail) ==
  IF fail THEN [kind |-> "error", secret |-> EmptySecret]
  ELSE IF ~st.exists THEN [kind |-> "notfound", secret |-> EmptySecret]
  ELSE [kind |-> "ok", secret |-> st.secret]

\* Secrets(ns).Create / Update of the client: Create refuses an existing
\* secret, Update a missing one.
clientApply(st, kind, s, fail) ==
  IF fail THEN [err |-> "error", store |-> st]
  ELSE IF kind = "create"
    THEN IF st.exists THEN [err |-> "already exists", store |-> st]
         ELSE [err |-> "nil", store |-> Stored(s)]
  ELSE IF ~st.exists THEN [err |-> "notfound", store |-> st]
       ELSE [err |-> "nil", store |-> Stored(s)]

\* A lookup that misses the target (another namespace): never finds it.
getSecretElsewhere(st, fail) == clientGet(Absent, fail)

\* A lookup whose NotFound status is lost: absence looks like any failure.
getSecretOpaque(st, fail) ==
  LET r == clientGet(st, fail) IN
  IF r.kind = "notfound" THEN [r EXCEPT !.kind = "error"] ELSE r

\* A lookup that reports a secret without a decodable tls.crt as not found.
getSecretDropsUnparsable(st, fail) ==
  LET r == clientGet(st, fail) IN
  IF r.kind = "ok" /\ ~PemDecode(r.secret.crt).ok
    THEN [kind |-> "notfound", secret |-> EmptySecret] ELSE r

\* k8sAdapter.getSecret: the client's answer, as it is.
getSecret(st, fail) == clientGet(st, fail)

\* The two branches exchanged.
setSecretInverted(update) == IF update THEN "create" ELSE "update"

\* A Create whatever the update flag.
setSecretAlwaysCreate(update) == "create"

\* k8sAdapter.setSecret: the request it issues for its update flag.
setSecret(update) == IF update THEN "update" ELSE "create"

\* ------------------------------------------------------------------- state
VARIABLES
  flags,        \* the command line, once parsed
  pc,           \* where main (or sync, called from it) stands
  fatal,        \* the message of log.Fatalf, "" while none
  syncInterval, \* the parsed -interval, in hours
  ipStrings,    \* -ip, split
  dnsStrings,   \* -dns, split
  clientset,    \* whether a Kubernetes client was built
  namespace,    \* the namespace main resolved
  sync,         \* the syncer main built
  mode,         \* "oneshot" or "loop" once main chose, "none" before
  nt,           \* locals of the no-target branch: signer, rsaKey, cert, key
  out,          \* what was printed on stdout
  fr,           \* locals of one call of sync
  sleepUntil,   \* the day from which the current time.Sleep can return
  store,        \* the target secret in the cluster
  now,          \* the clock, in days
  nextKey,      \* the next key the random source yields
  inflight,     \* store requests issued and not yet answered
  cycle,        \* number of calls of sync so far
  cur,          \* record of the current (or last) call of sync
  prev,         \* record of the call before it
  lastEvent,    \* last of: cycleStart, cycleOk, cycleErr, sleepStart, sleepEnd
  hist          \* the run so far: keys generated, store requests issued, CA reads

mainVars == <<flags, syncInterval, ipStrings, dnsStrings, clientset, namespace, sync, mode>>
ntVars == <<nt, out>>
worldVars == <<store, nextKey>>
ghostVars == <<inflight, cycle, cur, prev, lastEvent>>
vars == <<flags, pc, fatal, syncInterval, ipStrings, dnsStrings, clientset, namespace,
          sync, mode, nt, out, fr, sleepUntil, store, now, nextKey, inflight, cycle,
          cur, prev, lastEvent, hist>>

DefaultFlags == [subject |-> "", interval |-> "", dns |-> <<>>, ip |-> <<>>,
                 expire |-> 60, name |-> "", ns |-> "", label |-> {}]
NoId == [name |-> "", namespace |-> ""]
NoSyncer == [id |-> NoId, subject |-> "", ip |-> <<>>, dns |-> <<>>,
             daysValid |-> 0, labels |-> {}]
NoNt == [signer |-> NoSigner, rsaKey |-> 0, cert |-> NoPem, key |-> 0, caBad |-> FALSE]
NoGet == [kind |-> "none", secret |-> EmptySecret]
NoFrame == [got |-> NoGet, update |-> FALSE, reason |-> "", signer |-> NoSigner,
            secret |-> EmptySecret, err |-> "nil"]
NoCycle == [n |-> 0, decidedAt |-> -1, before |-> Absent, got |-> "none",
            reason |-> "", caLoads |-> 0, keys |-> 0, writes |-> <<>>,
            failed |-> "none", result |-> "none"]
NoHist == [keys |-> <<>>, ops |-> <<>>, caReads |-> 0]

Init ==
  /\ flags = DefaultFlags
  /\ pc = "flagParse"
  /\ fatal = ""
  /\ syncInterval = 0
  /\ ipStrings = <<>>
  /\ dnsStrings = <<>>
  /\ clientset = FALSE
  /\ namespace = ""
  /\ sync = NoSyncer
  /\ mode = "none"
  /\ nt = NoNt
  /\ out = <<>>
  /\ fr = NoFrame
  /\ sleepUntil = 0
  /\ store \in InitialStores
  /\ now = 0
  /\ nextKey = 1
  /\ inflight = {}
  /\ cycle = 0
  /\ cur = NoCycle
  /\ prev = NoCycle
  /\ lastEvent = "none"
  /\ hist = NoHist

\* -------------------------------------------------------------------- main
\* flag.Parse: the command line is fixed from here on.
FlagParse ==
  /\ pc = "flagParse"
  /\ \E s \in SubjectFlags, i \in IntervalFlags, san \in SanFlags,
        e \in ExpireFlags, n \in NameFlags, ns \in NamespaceFlags, l \in LabelFlags :
       flags' = [subject |-> s, interval |-> i, dns |-> san.dns, ip |-> san.ip, expire |-> e,
                 name |-> n, ns |-> ns, label |-> l]
  /\ pc' = "checkSubject"
  /\ UNCHANGED <<fatal, syncInterval, ipStrings, dnsStrings, clientset, namespace, sync,
                 mode, nt, out, fr, sleepUntil, store, now, nextKey, inflight, cycle,
                 cur, prev, lastEvent, hist>>

\* if len(*subject) == 0 { log.Fatalf(...) }
CheckSubject ==
  /\ pc = "checkSubject"
  /\ IF flags.subject = ""
       THEN pc' = "fatal" /\ fatal' = "Missing required -subject parameter"
       ELSE pc' = "parseInterval" /\ fatal' = fatal
  /\ UNCHANGED <<mainVars, ntVars, fr, sleepUntil, worldVars, now, ghostVars, hist>>

\* A parse whose error is dropped: the zero duration instead.
parseIntervalLenient(interval) ==
  IF interval = "" THEN [err |-> "nil", d |-> 0]
  ELSE [err |-> "nil", d |-> ParseDuration(interval).d]

\* The parsed interval: zero when the flag is empty, fatal when it does not parse.
parseInterval(interval) ==
  IF interval = "" THEN [err |-> "nil", d |-> 0] ELSE ParseDuration(interval)

ParseInterval ==
  /\ pc = "parseInterval"
  /\ LET r == parseInterval(flags.interval) IN
       IF r.err # "nil"
         THEN /\ pc' = "fatal"
              /\ fatal' = "Parameter -interval was not a valid duration"
              /\ syncInterval' = syncInterval
         ELSE /\ pc' = "splitNames"
              /\ fatal' = fatal
              /\ syncInterval' = r.d
  /\ UNCHANGED <<flags, ipStrings, dnsStrings, clientset, namespace, sync, mode, ntVars,
                 fr, sleepUntil, worldVars, now, ghostVars, hist>>

\* A comma-separated flag as a slice: nil for the empty flag.
splitFlag(s) == IF Len(s) > 0 THEN Split(s) ELSE <<>>

\* The store branch taken whatever the secret name.
targetBranchAlways(name) == "getConfig"

\* if len(*k8sName) == 0 { generate on stdout } else { the store }
targetBranch(name) == IF name = "" THEN "ntReadCa" ELSE "getConfig"

SplitNames ==
  /\ pc = "splitNames"
  /\ ipStrings' = splitFlag(flags.ip)
  /\ dnsStrings' = splitFlag(flags.dns)
  /\ pc' = targetBranch(flags.name)
  /\ UNCHANGED <<flags, fatal, syncInterval, clientset, namespace, sync, mode, ntVars,
                 fr, sleepUntil, worldVars, now, ghostVars, hist>>

\* ---- no secret name: generate on stdout (main, the branch of len(*k8sName) == 0)
NoTargetReadCa ==
  /\ pc = "ntReadCa"
  /\ \E c \in CrtFiles, k \in KeyFiles :
       LET r == readCa(c, k) IN
       IF r.err # "nil"
         THEN /\ pc' = "fatal"
              /\ fatal' = "Failed to read CA files"
              /\ nt' = [nt EXCEPT !.caBad = BadCa(c, k)]
         ELSE /\ pc' = "ntGenKey"
              /\ fatal' = fatal
              /\ nt' = [nt EXCEPT !.signer = r.signer, !.caBad = BadCa(c, k)]
  /\ hist' = [hist EXCEPT !.caReads = @ + 1]
  /\ UNCHANGED <<mainVars, out, fr, sleepUntil, worldVars, now, ghostVars>>

\* A key that does not come from the random source.
GenerateKeyFixed(reader) == 1

\* rsa.GenerateKey(rand.Reader, 2048): the key is what the random source
\* yields next, a value it has not yielded before.
GenerateKey(reader) == reader

\* rsaKey, err := rsa.GenerateKey(...): a key, or an error.
NoTargetGenerateKey ==
  /\ pc = "ntGenKey"
  /\ \E ok \in BOOLEAN :
       IF ok
         THEN /\ nt' = [nt EXCEPT !.rsaKey = GenerateKey(nextKey)]
              /\ nextKey' = nextKey + 1
              /\ hist' = [hist EXCEPT !.keys = Append(@, GenerateKey(nextKey))]
              /\ pc' = "ntGenCert"
              /\ fatal' = fatal
         ELSE /\ pc' = "fatal"
              /\ fatal' = "Unable to generate private key"
              /\ UNCHANGED <<nt, nextKey, hist>>
  /\ UNCHANGED <<mainVars, out, fr, sleepUntil, store, now, ghostVars>>

\* generateSignedCert(...) and fmt.Print(cert, key)
NoTargetGenerateCert ==
  /\ pc = "ntGenCert"
  /\ LET g == generateSignedCert(flags.subject, ipStrings, dnsStrings, flags.expire,
                                 nt.rsaKey, nt.signer, now) IN
       IF g.err # "nil"
         THEN pc' = "fatal" /\ fatal' = "Unable to generate certificate" /\ UNCHANGED <<nt, out>>
         ELSE /\ nt' = [nt EXCEPT !.cert = g.cert, !.key = g.key]
              /\ out' = <<g.cert, g.key>>
              /\ pc' = "exit0"
              /\ fatal' = fatal
  /\ UNCHANGED <<mainVars, fr, sleepUntil, worldVars, now, ghostVars, hist>>

\* ---- a secret name is given: the Kubernetes client
\* config.GetConfig()
GetConfig ==
  /\ pc = "getConfig"
  /\ \E ok \in BOOLEAN :
       IF ok THEN pc' = "newClient" /\ fatal' = fatal
             ELSE pc' = "fatal" /\ fatal' = "Unable to get Kubernetes config"
  /\ UNCHANGED <<mainVars, ntVars, fr, sleepUntil, worldVars, now, ghostVars, hist>>

\* kubernetes.NewForConfig(cfg)
NewForConfig ==
  /\ pc = "newClient"
  /\ \E ok \in BOOLEAN :
       IF ok THEN pc' = "resolveNs" /\ fatal' = fatal /\ clientset' = TRUE
             ELSE /\ pc' = "fatal"
                  /\ fatal' = "Unable to initialize Kubernetes client"
                  /\ clientset' = clientset
  /\ UNCHANGED <<flags, syncInterval, ipStrings, dnsStrings, namespace, sync, mode,
                 ntVars, fr, sleepUntil, worldVars, now, ghostVars, hist>>

\* The service-account namespace file: unreadable, empty, or naming a namespace.
NamespaceFiles == {[readable |-> FALSE, content |-> ""],
                   [readable |-> TRUE, content |-> ""],
                   [readable |-> TRUE, content |-> "prod"]}

\* The resolution without its last step: no fallback to "default".
resolveNamespaceNoDefault(flagNs, file) ==
  IF flagNs = ""
    THEN IF file.readable THEN file.content ELSE flagNs
    ELSE flagNs

\* The namespace of the target: the flag, else the file, else "default".
resolveNamespace(flagNs, file) ==
  LET fromFile == IF flagNs = ""
                    THEN IF file.readable THEN file.content ELSE flagNs
                    ELSE flagNs
  IN IF fromFile = "" THEN "default" ELSE fromFile

ResolveNamespace ==
  /\ pc = "resolveNs"
  /\ \E f \in NamespaceFiles : namespace' = resolveNamespace(flags.ns, f)
  /\ pc' = "newSyncer"
  /\ UNCHANGED <<flags, fatal, syncInterval, ipStrings, dnsStrings, clientset, sync, mode,
                 ntVars, fr, sleepUntil, worldVars, now, ghostVars, hist>>

\* Variants of the literal with one field left at its zero value.
newSyncerWithoutDns(f, ips, dnss, ns) ==
  [id |-> [name |-> f.name, namespace |-> ns], subject |-> f.subject, ip |-> ips,
   dns |-> <<>>, daysValid |-> f.expire, labels |-> f.label]

newSyncerWithoutDays(f, ips, dnss, ns) ==
  [id |-> [name |-> f.name, namespace |-> ns], subject |-> f.subject, ip |-> ips,
   dns |-> dnss, daysValid |-> 0, labels |-> f.label]

\* sync := syncer{...}
newSyncer(f, ips, dnss, ns) ==
  [id |-> [name |-> f.name, namespace |-> ns], subject |-> f.subject, ip |-> ips,
   dns |-> dnss, daysValid |-> f.expire, labels |-> f.label]

\* The loop whatever the interval.
modeOfAlwaysLoop(d) == "loop"

\* if syncInterval == time.Duration(0) { one shot } else { loop }
modeOf(d) == IF d = 0 THEN "oneshot" ELSE "loop"

NewSyncer ==
  /\ pc = "newSyncer"
  /\ sync' = newSyncer(flags, ipStrings, dnsStrings, namespace)
  /\ mode' = modeOf(syncInterval)
  /\ pc' = "callSync"
  /\ UNCHANGED <<flags, fatal, syncInterval, ipStrings, dnsStrings, clientset, namespace,
                 ntVars, fr, sleepUntil, worldVars, now, ghostVars, hist>>

\* ------------------------------------------------------- syncer.sync
\* How a call of sync ends: the error is handed to main.
Finish(f, c, err) ==
  /\ fr' = [f EXCEPT !.err = err]
  /\ cur' = [c EXCEPT !.result = IF err = "nil" THEN "ok" ELSE "err"]
  /\ lastEvent' = IF err = "nil" THEN "cycleOk" ELSE "cycleErr"
  /\ pc' = "syncRet"

Request(op) == [op |-> op, id |-> sync.id]

\* main calls sync.sync(); sync asks the store for the secret.
SyncCallGet ==
  /\ pc = "callSync"
  /\ cycle < MaxCycles
  /\ cycle' = cycle + 1
  /\ prev' = cur
  /\ cur' = [NoCycle EXCEPT !.n = cycle + 1, !.before = store,
                            !.result = "running"]
  /\ lastEvent' = "cycleStart"
  /\ fr' = NoFrame
  /\ inflight' = inflight \cup {Request("get")}
  /\ hist' = [hist EXCEPT !.ops = Append(@, "get")]
  /\ pc' = "syGetWait"
  /\ UNCHANGED <<mainVars, fatal, ntVars, sleepUntil, worldVars, now>>

\* k8sAdapter.getSecret returns.
GetSecretReturns ==
  /\ pc = "syGetWait"
  /\ \E fail \in BOOLEAN :
       LET r == getSecret(store, fail) IN
       /\ fr' = [fr EXCEPT !.got = r]
       /\ cur' = [cur EXCEPT !.got = r.kind, !.failed = IF fail THEN "get" ELSE @]
  /\ inflight' = inflight \ {Request("get")}
  /\ pc' = "syDecide"
  /\ UNCHANGED <<mainVars, fatal, ntVars, sleepUntil, worldVars, now, cycle, prev, lastEvent, hist>>

\* The stored certificate sync compares with: none when the secret is
\* absent or its tls.crt does not parse.
Existing(got) ==
  LET p == ParseStoredCert(got.secret.crt) IN
  [present |-> got.kind = "ok" /\ p.ok, cert |-> p.cert]

\* sync looks at what it got: a store error ends the call; otherwise the
\* drift decision is taken against the clock.
SyncDecide ==
  /\ pc = "syDecide"
  /\ IF fr.got.kind = "error"
       THEN Finish(fr, cur, "unable to get secret")
       ELSE LET e == Existing(fr.got)
                reason == DriftReason(sync.subject, sync.ip, sync.dns, e.present, e.cert, now)
                f == [fr EXCEPT !.reason = reason, !.update = (fr.got.kind = "ok")]
                c == [cur EXCEPT !.reason = reason, !.decidedAt = now]
            IN IF needsRegeneration(sync.subject, sync.ip, sync.dns, e.present, e.cert, now)
                 THEN fr' = f /\ cur' = c /\ pc' = "sySigner" /\ lastEvent' = lastEvent
                 ELSE Finish(f, c, "nil")
  /\ UNCHANGED <<mainVars, fatal, ntVars, sleepUntil, worldVars, now, inflight, cycle, prev, hist>>

\* s.getSigner(): readCa on the CA files as they are now.
SyncGetSigner ==
  /\ pc = "sySigner"
  /\ \E c \in CrtFiles, k \in KeyFiles :
       LET r == readCa(c, k)
           cy == [cur EXCEPT !.caLoads = @ + 1, !.failed = IF BadCa(c, k) THEN "ca" ELSE @]
       IN IF r.err # "nil"
            THEN Finish(fr, cy, r.err)
            ELSE /\ fr' = [fr EXCEPT !.signer = r.signer]
                 /\ cur' = cy
                 /\ pc' = "syGenerate"
                 /\ lastEvent' = lastEvent
  /\ hist' = [hist EXCEPT !.caReads = @ + 1]
  /\ UNCHANGED <<mainVars, fatal, ntVars, sleepUntil, worldVars, now, inflight, cycle, prev>>

\* A new key and a certificate for the specification; the secret to write.
SyncGenerate ==
  /\ pc = "syGenerate"
  /\ \E ok \in BOOLEAN :
       IF ~ok
         THEN /\ Finish(fr, [cur EXCEPT !.failed = "generate"], "unable to generate key")
              /\ UNCHANGED <<nextKey, hist>>
         ELSE LET rsaKey == GenerateKey(nextKey)
                  g == generateSignedCert(sync.subject, sync.ip, sync.dns, sync.daysValid,
                                          rsaKey, fr.signer, now)
                  cy == [cur EXCEPT !.keys = @ + 1,
                                    !.failed = IF fr.signer.key # fr.signer.cert
                                                 THEN "generate" ELSE @]
              IN /\ nextKey' = nextKey + 1
                 /\ hist' = [hist EXCEPT !.keys = Append(@, rsaKey)]
                 /\ IF g.err # "nil"
                      THEN Finish(fr, cy, g.err)
                      ELSE /\ fr' = [fr EXCEPT !.secret = Secret(g.cert, g.key, sync.labels)]
                           /\ cur' = cy
                           /\ pc' = "sySet"
                           /\ lastEvent' = lastEvent
  /\ UNCHANGED <<mainVars, fatal, ntVars, sleepUntil, store, now, inflight, cycle, prev>>

\* sync calls k8sAdapter.setSecret(secret, update).
SyncCallSet ==
  /\ pc = "sySet"
  /\ inflight' = inflight \cup {Request(setSecret(fr.update))}
  /\ cur' = [cur EXCEPT !.writes = Append(@, setSecret(fr.update))]
  /\ hist' = [hist EXCEPT !.ops = Append(@, setSecret(fr.update))]
  /\ pc' = "sySetWait"
  /\ UNCHANGED <<mainVars, fatal, ntVars, fr, sleepUntil, worldVars, now, cycle, prev, lastEvent>>

\* The Create or Update returns; its error is sync's result.
SetSecretReturns ==
  /\ pc = "sySetWait"
  /\ \E fail \in BOOLEAN :
       LET r == clientApply(store, setSecret(fr.update), fr.secret, fail) IN
       /\ store' = r.store
       /\ Finish(fr, [cur EXCEPT !.failed = IF fail \/ r.err # "nil" THEN "set" ELSE @], r.err)
  /\ inflight' = inflight \ {Request(setSecret(fr.update))}
  /\ UNCHANGED <<mainVars, fatal, ntVars, sleepUntil, nextKey, now, cycle, prev, hist>>

\* ------------------------------------------------- main, after sync returned
\* One shot, with the error of sync not looked at.
afterSyncIgnoresError(m, err) ==
  IF m = "oneshot" THEN "exit0"
  ELSE IF err # "nil" THEN "fatal" ELSE "sleeping"

\* The loop, logging the error and carrying on.
afterSyncLogsAndContinues(m, err) ==
  IF m = "oneshot" THEN (IF err # "nil" THEN "fatal" ELSE "exit0")
  ELSE "sleeping"

\* The loop, without its time.Sleep.
afterSyncWithoutSleep(m, err) ==
  IF err # "nil" THEN "fatal"
  ELSE IF m = "oneshot" THEN "exit0" ELSE "callSync"

\* One shot falling through into the loop's sleep.
afterSyncOneShotSleeps(m, err) ==
  IF err # "nil" THEN "fatal" ELSE "sleeping"

\* Where main goes when sync returned err: log.Fatalf on an error; otherwise
\* return (one shot) or time.Sleep (loop).
afterSync(m, err) ==
  IF err # "nil" THEN "fatal"
  ELSE IF m = "oneshot" THEN "exit0" ELSE "sleeping"

SyncReturns ==
  /\ pc = "syncRet"
  /\ LET to == afterSync(mode, fr.err) IN
       /\ pc' = to
       /\ fatal' = IF to = "fatal" THEN "Unable to sync certs" ELSE fatal
       /\ sleepUntil' = IF to = "sleeping" THEN now + SleepDays(syncInterval) ELSE sleepUntil
       /\ lastEvent' = IF to = "sleeping" THEN "sleepStart" ELSE lastEvent
  /\ UNCHANGED <<mainVars, ntVars, fr, worldVars, now, inflight, cycle, cur, prev, hist>>

\* time.Sleep(syncInterval) returns; the loop calls sync again.
SleepReturns ==
  /\ pc = "sleeping"
  /\ now >= sleepUntil
  /\ pc' = "callSync"
  /\ lastEvent' = "sleepEnd"
  /\ UNCHANGED <<mainVars, fatal, ntVars, fr, sleepUntil, worldVars, now, inflight, cycle,
                 cur, prev, hist>>

\* ------------------------------------------------------------- environment
\* A day passes while the process runs.
Tick ==
  /\ pc \notin {"exit0", "fatal"}
  /\ now < MaxTime
  /\ now' = now + 1
  /\ UNCHANGED <<mainVars, pc, fatal, ntVars, fr, sleepUntil, worldVars, ghostVars, hist>>

Next ==
  \/ FlagParse
  \/ CheckSubject
  \/ ParseInterval
  \/ SplitNames
  \/ NoTargetReadCa
  \/ NoTargetGenerateKey
  \/ NoTargetGenerateCert
  \/ GetConfig
  \/ NewForConfig
  \/ ResolveNamespace
  \/ NewSyncer
  \/ SyncCallGet
  \/ GetSecretReturns
  \/ SyncDecide
  \/ SyncGetSigner
  \/ SyncGenerate
  \/ SyncCallSet
  \/ SetSecretReturns
  \/ SyncReturns
  \/ SleepReturns
  \/ Tick

Spec == Init /\ [][Next]_vars

\* The steps of the process itself (all but the passing of time).  The
\* process is scheduled and every call it makes returns: a store request is
\* answered, with the secret or with an error.
Step ==
  \/ FlagParse \/ CheckSubject \/ ParseInterval \/ SplitNames
  \/ NoTargetReadCa \/ NoTargetGenerateKey \/ NoTargetGenerateCert
  \/ GetConfig \/ NewForConfig \/ ResolveNamespace \/ NewSyncer
  \/ SyncCallGet \/ GetSecretReturns \/ SyncDecide \/ SyncGetSigner \/ SyncGenerate
  \/ SyncCallSet \/ SetSecretReturns \/ SyncReturns \/ SleepReturns

FairSpec == Spec /\ WF_vars(Step)

\* --------------------------------------------- the drift decision on its own
\* The decision step of sync applied to every combination of a desired
\* specification, a stored secret and a clock reading drawn from these sets.
DriftNames == {<<"a">>, <<"b">>}
DriftDnsLists ==
  {<<>>} \cup {<<x>> : x \in DriftNames} \cup {<<x, y>> : x \in DriftNames, y \in DriftNames}
DriftIpStrings == {<<>>, <<<<LoopbackV6>>>>, <<<<LoopbackV6Long>>>>, <<<<"10.0.0.1">>>>,
                   <<<<LoopbackV6Long>>, <<"10.0.0.1">>>>,
                   <<<<"10.0.0.1">>, <<LoopbackV6>>>>}
DriftIpLists == {<<>>, <<LoopbackV6>>, <<"10.0.0.1">>, <<LoopbackV6, "10.0.0.1">>,
                 <<"10.0.0.1", LoopbackV6>>}
DriftCerts == {Cert(cn, d, i, na, 0) :
                 cn \in {SvcCN, OldCN}, d \in DriftDnsLists, i \in DriftIpLists,
                 na \in 0..MaxTime}
DriftGets ==
  {[kind |-> "notfound", secret |-> EmptySecret],
   [kind |-> "ok", secret |-> Secret(NoPem, 0, {})]}
    \cup {[kind |-> "ok", secret |-> Secret(PemEncode("CERTIFICATE", c), 0, {})] :
            c \in DriftCerts}

DriftInit ==
  /\ flags = DefaultFlags
  /\ pc = "syDecide"
  /\ fatal = ""
  /\ syncInterval = 0
  /\ ipStrings = <<>>
  /\ dnsStrings = <<>>
  /\ clientset = TRUE
  /\ namespace = "default"
  /\ \E cn \in {SvcCN, OldCN}, d \in DriftDnsLists, i \in DriftIpStrings :
       sync = [id |-> [name |-> "tls", namespace |-> "default"], subject |-> cn,
               ip |-> i, dns |-> d, daysValid |-> 1, labels |-> {}]
  /\ mode = "oneshot"
  /\ nt = NoNt
  /\ out = <<>>
  /\ \E g \in DriftGets : fr = [NoFrame EXCEPT !.got = g]
  /\ sleepUntil = 0
  /\ store = Absent
  /\ now \in 0..MaxTime
  /\ nextKey = 1
  /\ inflight = {}
  /\ cycle = 1
  /\ cur = [NoCycle EXCEPT !.n = 1, !.result = "running"]
  /\ prev = NoCycle
  /\ lastEvent = "cycleStart"
  /\ hist = [NoHist EXCEPT !.ops = <<"get">>]

DriftNext == SyncDecide

DriftSpec == DriftInit /\ [][DriftNext]_vars

\* ================================================================ properties
\* The desired specification, as the command line gives it.
DesiredDns == Range(splitFlag(flags.dns))
DesiredIps == Range(ParseIPs(splitFlag(flags.ip)))

\* A stored secret holds a certificate for the desired specification.
Matches(st) ==
  LET p == ParseStoredCert(st.secret.crt) IN
  /\ st.exists
  /\ p.ok
  /\ p.cert.cn = flags.subject
  /\ Range(p.cert.dns) = DesiredDns
  /\ Range(p.cert.ip) = DesiredIps

NotAfterOf(st) == ParseStoredCert(st.secret.crt).cert.notAfter

CycleDone == pc = "syncRet"

\* C1: when a cycle has completed successfully and the validity is positive,
\* the store holds a certificate with the desired subject, DNS-name set and
\* IP-address set, and its notAfter is later than the time of that cycle.
C1_SuccessfulCycleLeavesValidCert ==
  (CycleDone /\ cur.result = "ok" /\ flags.expire > 0) =>
    (Matches(store) /\ NotAfterOf(store) > cur.decidedAt)

\* A successful cycle that found a secret whose tls.crt did not parse.
C1_Witness ==
  /\ CycleDone /\ cur.result = "ok" /\ flags.expire > 0
  /\ cur.before.exists /\ ~ParseStoredCert(cur.before.secret.crt).ok
  /\ cur.writes = <<"update">>

\* Two cycles in succession, the first successful, both reading the same clock.
SecondCycleSameTime ==
  cur.n >= 2 /\ prev.result = "ok" /\ cur.decidedAt = prev.decidedAt

\* The later cycle wrote nothing; the two wrote once if the first regenerated.
SecondCycleIsNoOp ==
  /\ cur.writes = <<>>
  /\ cur.reason = "in sync"
  /\ prev.reason # "in sync" => Len(prev.writes) + Len(cur.writes) = 1

\* C2 as stated: a cycle that follows a successful cycle with the clock
\* unchanged writes nothing, and the two together wrote once if the first
\* had to regenerate.
C2_Original == SecondCycleSameTime => SecondCycleIsNoOp

\* C2, amended: the same for a positive validity in days.
C2_IdempotentForPositiveValidity ==
  (SecondCycleSameTime /\ flags.expire > 0) => SecondCycleIsNoOp

\* The second of two cycles at one clock reading, the first having written.
C2_Witness ==
  /\ CycleDone /\ SecondCycleSameTime /\ flags.expire > 0
  /\ prev.writes # <<>> /\ cur.result = "ok"

\* The secret a cycle found was in sync with the desired specification at
\* the time the cycle took its decision.
InSyncBefore ==
  /\ cur.n >= 1 /\ cur.decidedAt >= 0
  /\ Matches(cur.before)
  /\ NotAfterOf(cur.before) > cur.decidedAt

\* C4: a cycle that finds the stored certificate in sync issues no create
\* and no update, does not load the CA, generates no key, and leaves the
\* stored secret (tls.crt, tls.key, labels) as it was.
C4_InSyncCycleChangesNothing ==
  InSyncBefore =>
    /\ cur.reason = "in sync"
    /\ cur.writes = <<>>
    /\ cur.caLoads = 0
    /\ cur.keys = 0
    /\ store = cur.before

\* A completed cycle that found a matching, unexpired certificate whose
\* labels differ from the configured ones.
C4_Witness ==
  /\ CycleDone /\ InSyncBefore /\ cur.result = "ok"
  /\ cur.before.secret.labels # flags.label

\* ---- C3, under DriftSpec
Decided == pc \in {"sySigner", "syncRet"}
Given == Existing(fr.got)

\* Two lists differ as sets: some element of one is in no position of the other.
DifferAsSets(xs, ys) ==
  \/ \E i \in DOMAIN xs : \A j \in DOMAIN ys : ys[j] # xs[i]
  \/ \E j \in DOMAIN ys : \A i \in DOMAIN xs : xs[i] # ys[j]

RuleMissing == ~Given.present
RuleExpired == Given.cert.notAfter <= now
RuleSubject == Given.cert.cn # sync.subject
RuleSan ==
  \/ DifferAsSets(Given.cert.dns, sync.dns)
  \/ DifferAsSets(Given.cert.ip, ParseIPs(sync.ip))

FirstRule ==
  IF RuleMissing THEN "missing"
  ELSE IF RuleExpired THEN "expired"
  ELSE IF RuleSubject THEN "subject changed"
  ELSE IF RuleSan THEN "SAN changed"
  ELSE "in sync"

\* C3: the decision is to regenerate exactly when the certificate is
\* absent, or notAfter <= now, or the subject differs, or the DNS names or
\* the IP addresses differ as sets; the reason is that of the first of these
\* rules that applies, and "in sync" when none does.
C3_DriftDecision ==
  Decided =>
    /\ (pc = "sySigner") = (RuleMissing \/ RuleExpired \/ RuleSubject \/ RuleSan)
    /\ fr.reason = FirstRule

\* Kept: the stored names are those of the specification in another order,
\* the address is spelled differently, and the certificate expires tomorrow.
C3_Witness ==
  /\ pc = "syncRet" /\ fr.reason = "in sync"
  /\ Given.cert.dns # sync.dns /\ Len(sync.dns) = 2
  /\ sync.ip = <<<<LoopbackV6Long>>>>
  /\ Given.cert.notAfter = now + 1

\* ---- C5 - C10, under Spec
RegenerationRequired == cur.decidedAt >= 0 /\ cur.reason # "in sync"

WriteKindFollowsGet ==
  cur.writes # <<>> =>
    /\ (cur.writes[1] = "create") = (cur.got = "notfound")
    /\ (cur.writes[1] = "update") = (cur.got = "ok")

\* C5 as stated: every completed cycle that requires regeneration has issued
\* exactly one write, a create if and only if its get found nothing, an
\* update if and only if its get found the secret.
C5_Original ==
  (CycleDone /\ RegenerationRequired) => (Len(cur.writes) = 1 /\ WriteKindFollowsGet)

\* C5, amended: a cycle that requires regeneration issues exactly one write
\* once the CA is loaded and the certificate generated, and none when either
\* fails; the kind of the write follows the cycle's own get, and the request
\* the adapter has outstanding is the Create for update = false, the Update
\* for update = true.
C5_OneWriteOfTheRightKind ==
  /\ (CycleDone /\ RegenerationRequired) =>
       /\ Len(cur.writes) = (IF cur.failed \in {"ca", "generate"} THEN 0 ELSE 1)
       /\ WriteKindFollowsGet
  /\ pc = "sySetWait" =>
       /\ WriteKindFollowsGet
       /\ inflight = {[op |-> IF fr.update THEN "update" ELSE "create", id |-> sync.id]}
       /\ cur.writes = <<IF fr.update THEN "update" ELSE "create">>

\* An expired certificate was replaced by one update.
C5_Witness ==
  /\ CycleDone /\ cur.reason = "expired" /\ cur.result = "ok"
  /\ cur.got = "ok" /\ cur.writes = <<"update">>

C7_ErrorsFailTheCycle ==
  /\ (CycleDone /\ cur.failed # "none") => (cur.result = "err" /\ fr.err # "nil")
  /\ (CycleDone /\ cur.failed \in {"get", "ca", "generate"}) =>
       (cur.writes = <<>> /\ store = cur.before)
  /\ (cycle >= 1 /\ pc \in {"exit0", "sleeping", "callSync"}) => cur.failed = "none"
  /\ (cycle >= 1 /\ pc = "fatal") => (cur.failed # "none" /\ fatal = "Unable to sync certs")

\* The process stopped on a signing failure, the stored secret untouched.
C7_Witness ==
  /\ pc = "fatal" /\ cur.failed = "generate" /\ cur.keys = 1
  /\ cur.before.exists /\ store = cur.before

\* C8: in polling mode, once a cycle has failed, no step starts a cycle or a
\* sleep or issues a store request: the process only goes on to log.Fatalf.
C8_FailedCycleEndsLoop ==
  [][(mode = "loop" /\ cur.result = "err") =>
       /\ pc' \in {"syncRet", "fatal"}
       /\ cycle' = cycle
       /\ inflight = {} /\ inflight' = {}
       /\ lastEvent' = lastEvent
       /\ sleepUntil' = sleepUntil
       /\ store' = store]_vars

\* The loop stopped on the failure of its second cycle.
C8_Witness ==
  /\ pc = "fatal" /\ mode = "loop" /\ cycle = 2
  /\ prev.result = "ok" /\ cur.result = "err"

\* CA material was read and found broken, without or with a secret name.
CaFailureSeen == nt.caBad \/ cur.failed = "ca"

\* C9 as stated: whenever CA material was found broken, in either mode, no
\* store request had been issued.
C9_Original == CaFailureSeen => (cycle = 0 /\ inflight = {})

\* C9, amended: broken CA material is fatal and read once.  Without a
\* secret name it stops the process at startup: no key, no output, no
\* client, no store request.  With a secret name the CA is read inside a
\* cycle that decided to regenerate, after the cycle's get was answered; the
\* failure fails that cycle with one load, no key, no write and the store
\* as it was, and the process goes on only to log.Fatalf.
C9_CaFailureIsFatal ==
  /\ nt.caBad =>
       /\ pc = "fatal" /\ fatal = "Failed to read CA files"
       /\ cycle = 0 /\ inflight = {} /\ ~clientset
       /\ nextKey = 1 /\ out = <<>>
  /\ cur.failed = "ca" =>
       /\ cur.got \in {"ok", "notfound"} /\ RegenerationRequired
       /\ cur.caLoads = 1 /\ cur.keys = 0
       /\ cur.writes = <<>> /\ inflight = {} /\ store = cur.before
       /\ cur.result = "err" /\ pc \in {"syncRet", "fatal"}

\* With a secret name: the process stopped on broken CA material after its get.
C9_Witness ==
  /\ pc = "fatal" /\ cur.failed = "ca" /\ cur.n = 1
  /\ cur.got = "ok" /\ fatal = "Unable to sync certs"

\* The order in which cycles and sleeps may follow each other.
AllowedSuccession ==
  {<<"none", "cycleStart">>, <<"cycleStart", "cycleOk">>, <<"cycleStart", "cycleErr">>,
   <<"cycleOk", "sleepStart">>, <<"sleepStart", "sleepEnd">>, <<"sleepEnd", "cycleStart">>}

\* C10: in polling mode a cycle starts only at the start of the loop or
\* after a sleep has ended, a sleep starts only after a cycle completed
\* successfully, lasts the configured interval (counted in whole days of
\* the clock) and ends no earlier than that, nothing else
\* follows a completed cycle, and at most one store request is outstanding,
\* and only inside a cycle.
C10_CyclesAndSleepsAlternate ==
  [][mode = "loop" =>
       /\ Cardinality(inflight) <= 1
       /\ inflight # {} => lastEvent = "cycleStart"
       /\ cycle' # cycle =>
            (lastEvent \in {"none", "sleepEnd"} /\ lastEvent' = "cycleStart")
       /\ lastEvent' # lastEvent => <<lastEvent, lastEvent'>> \in AllowedSuccession
       /\ (lastEvent # "sleepStart" /\ lastEvent' = "sleepStart") =>
            /\ cur.result = "ok" /\ syncInterval > 0
            /\ 24 * (sleepUntil' - now) <= syncInterval
            /\ syncInterval < 24 * (sleepUntil' - now + 1)
       /\ (lastEvent = "sleepStart" /\ lastEvent' = "sleepEnd") =>
            (now >= sleepUntil /\ cur.result = "ok")]_vars

\* The second cycle of a loop is running, a day-long sleep behind it.
C10_Witness ==
  /\ mode = "loop" /\ syncInterval = 24 /\ cycle = 2
  /\ lastEvent = "cycleStart" /\ inflight # {} /\ prev.result = "ok" /\ now >= 1

\* ---- C11 - C19
Terminated == pc \in {"exit0", "fatal"}

\* What a step may do in one-shot mode: start the one cycle, never sleep,
\* and leave the returned cycle only for the exit its result calls for.
OneShotStep ==
  mode = "oneshot" =>
    /\ cycle' # cycle => (cycle = 0 /\ cycle' = 1)
    /\ pc' # "sleeping" /\ lastEvent' \notin {"sleepStart", "sleepEnd"}
    /\ sleepUntil' = sleepUntil
    /\ (pc = "syncRet" /\ pc' # pc) =>
         /\ pc' = (IF cur.result = "ok" THEN "exit0" ELSE "fatal")
         /\ pc' = "fatal" => fatal' = "Unable to sync certs"
    /\ pc' = "exit0" => (cycle' = 1 /\ cur'.result = "ok" /\ fatal' = "")
    /\ pc' = "fatal" => (cycle' = 1 /\ cur'.result = "err")
    /\ Terminated => UNCHANGED vars

\* C11: in one-shot mode the process runs exactly one cycle and then
\* terminates: it ends successfully if and only if that cycle succeeded,
\* ends with a fatal error if the cycle failed, and never starts a second
\* cycle or sleeps.
C11_OneShotRunsOneCycle ==
  /\ [][OneShotStep]_vars
  /\ (mode = "oneshot") ~> (Terminated /\ cycle = 1)

\* The one cycle of a one-shot run created the secret and the process ended
\* successfully.
C11_Witness ==
  /\ mode = "oneshot" /\ pc = "exit0" /\ cycle = 1
  /\ cur.result = "ok" /\ cur.writes = <<"create">> /\ prev = NoCycle

\* The command line was read and names no secret.
NoTarget == pc # "flagParse" /\ flags.name = ""

\* The certificate printed is one for the command line, for the key printed.
PrintedPair ==
  /\ Len(out) = 2
  /\ LET p == ParseStoredCert(out[1]) IN
       /\ p.ok /\ p.cert.cn = flags.subject
       /\ Range(p.cert.dns) = DesiredDns /\ Range(p.cert.ip) = DesiredIps
       /\ p.cert.pub = out[2] /\ hist.keys = <<out[2]>>

\* What holds of a run without a secret name.
NoTargetState ==
  /\ ~clientset /\ sync = NoSyncer /\ mode = "none" /\ namespace = ""
  /\ cycle = 0 /\ inflight = {} /\ hist.ops = <<>>
  /\ hist.caReads <= 1 /\ Len(hist.keys) <= 1
  /\ Len(hist.keys) = 1 => hist.caReads = 1
  /\ out # <<>> => pc = "exit0"
  /\ pc = "exit0" => (hist.caReads = 1 /\ PrintedPair)

\* C12: without a secret name the process never touches the store: it
\* builds no client and issues no get, create or update, and the store stays
\* as it was; it reads the CA once, generates one key and one certificate,
\* prints them and ends, whatever the -interval flag says.
C12_NoTargetNeverTouchesStore ==
  [][NoTarget =>
       /\ NoTargetState /\ NoTargetState'
       /\ store' = store
       /\ Terminated => UNCHANGED vars]_vars

\* A certificate and its key were printed although -interval asks for a loop.
C12_Witness ==
  /\ NoTarget /\ pc = "exit0" /\ flags.interval = "12h" /\ syncInterval = 12
  /\ PrintedPair /\ Cardinality(DesiredDns) = 2

\* No key was returned by two calls of the generator.
KeysDistinct ==
  \A i, j \in DOMAIN hist.keys : i # j => hist.keys[i] # hist.keys[j]

\* A write that landed put the key generated last, with its certificate,
\* in place of another key.
WriteBringsNewKey ==
  store' # store =>
    /\ hist.keys # <<>>
    /\ store'.secret.key = hist.keys[Len(hist.keys)]
    /\ ParseStoredCert(store'.secret.crt).cert.pub = store'.secret.key
    /\ store.exists => store'.secret.key # store.secret.key

\* C13: no two calls of the generator, in one run, return the same key, no
\* call returns the key of a secret written by an earlier run, and the
\* tls.key a write puts in the store differs from the one it replaces.
C13_KeyNeverReused ==
  [][/\ KeysDistinct /\ KeysDistinct'
     /\ (cur'.n = 1 /\ cur'.before.exists) =>
          \A i \in DOMAIN hist'.keys : hist'.keys[i] # cur'.before.secret.key
     /\ WriteBringsNewKey]_vars

\* The second cycle of a run replaced the key the first had written.
C13_Witness ==
  /\ CycleDone /\ cycle = 2 /\ cur.result = "ok" /\ cur.writes = <<"update">>
  /\ Len(hist.keys) = 2
  /\ cur.before.secret.key = hist.keys[1] /\ store.secret.key = hist.keys[2]

\* The cycle's get was answered and the secret it asked for exists, with a
\* tls.crt that is no certificate.
FoundUnparsable ==
  /\ cur.n >= 1 /\ cur.got # "none" /\ cur.failed # "get"
  /\ cur.before.exists /\ ~ParseStoredCert(cur.before.secret.crt).ok

\* C14: a secret whose tls.crt cannot be parsed does not fail the cycle: the
\* decision is that of an absent certificate, the write is an update because
\* the secret exists, and unless the CA load, the generation or the update
\* itself fails the cycle succeeds and leaves a parsable certificate for the
\* desired specification.
C14_UnparsableIsReplacedByUpdate ==
  FoundUnparsable =>
    /\ cur.got = "ok"
    /\ cur.decidedAt >= 0 => cur.reason = "missing"
    /\ cur.writes # <<>> => cur.writes = <<"update">>
    /\ CycleDone =>
         /\ cur.decidedAt >= 0
         /\ cur.result = "err" => cur.failed \in {"ca", "generate", "set"}
         /\ cur.failed = "none" =>
              /\ cur.result = "ok" /\ cur.writes = <<"update">>
              /\ ParseStoredCert(store.secret.crt).ok /\ Matches(store)

\* The update of a secret without a certificate came back without error.
C14_Witness ==
  /\ CycleDone /\ FoundUnparsable /\ cur.reason = "missing" /\ cur.failed = "none"
  /\ hist.ops = <<"get", "update">> /\ Matches(store)

\* The store requests of the run so far: only get, create and update; a
\* create is the first write of the run and the only create.
OpsInOrder(ops) ==
  /\ \A i \in DOMAIN ops : ops[i] \in {"get", "create", "update"}
  /\ \A i, j \in DOMAIN ops :
       (i < j /\ ops[j] = "create") => ops[i] = "get"

\* The request a step issues, if it issues one.
Issues(op) == hist'.ops = Append(hist.ops, op)

\* C15: the process issues only get, create and update; a secret that
\* exists exists in every later state; a create is issued at most once, by a
\* cycle whose get found nothing and before any other write, it succeeds
\* only on an absent secret, and every write after it is an update of the
\* existing secret.
C15_ArtifactLifecycle ==
  [][/\ OpsInOrder(hist'.ops)
     /\ \A r \in inflight' : r.op \in {"get", "create", "update"}
     /\ store.exists => store'.exists
     /\ Issues("create") => (~store.exists /\ cur.got = "notfound")
     /\ Issues("update") => (store.exists /\ cur.got = "ok")
     /\ (store' # store /\ ~store.exists) =>
          (hist.ops[Len(hist.ops)] = "create" /\ cur'.result = "ok")]_vars

\* A run created the secret in its first cycle and updated it in its second.
C15_Witness ==
  /\ hist.ops = <<"get", "create", "get", "update">>
  /\ CycleDone /\ cur.result = "ok" /\ ~prev.before.exists /\ store.exists

\* A cycle that follows a successful cycle of the same run has taken its
\* decision.
DecidedAfterSuccess == cur.n >= 2 /\ prev.result = "ok" /\ cur.decidedAt >= 0

\* C16: a cycle that follows a successful cycle finds a certificate for the
\* desired specification; while its clock reading is strictly before that
\* certificate's notAfter it decides "in sync", loads no CA, generates no
\* key and writes nothing; at the first reading with notAfter <= now it
\* decides "expired" and, unless the CA load, the generation or the write
\* fails, replaces the certificate by one update.
C16_NoEarlyRenewal ==
  DecidedAfterSuccess =>
    /\ Matches(cur.before)
    /\ IF cur.decidedAt < NotAfterOf(cur.before)
         THEN /\ cur.reason = "in sync"
              /\ cur.writes = <<>> /\ cur.caLoads = 0 /\ cur.keys = 0
              /\ store = cur.before
         ELSE /\ cur.reason = "expired"
              /\ cur.writes # <<>> => cur.writes = <<"update">>
              /\ (CycleDone /\ cur.failed = "none") =>
                   /\ cur.result = "ok" /\ cur.writes = <<"update">>
                   /\ store # cur.before /\ Matches(store)

\* A day before the expiry of the certificate the first cycle wrote, the
\* second cycle wrote nothing.
C16_Witness ==
  /\ CycleDone /\ DecidedAfterSuccess /\ prev.writes # <<>>
  /\ NotAfterOf(cur.before) = cur.decidedAt + 1
  /\ cur.decidedAt > prev.decidedAt /\ hist.ops[Len(hist.ops)] = "get"

\* On the day of the expiry the second cycle replaced the certificate.
C16_RenewalSeen ==
  /\ CycleDone /\ DecidedAfterSuccess /\ flags.expire > 0
  /\ NotAfterOf(cur.before) = cur.decidedAt /\ cur.writes = <<"update">>
  /\ cur.result = "ok"

\* The namespace the claim names for a -namespace flag and a namespace file.
ExpectedNamespace(flagNs, file) ==
  IF flagNs # "" THEN flagNs
  ELSE IF file.readable /\ file.content # "" THEN file.content
  ELSE "default"

\* main is past the resolution of the namespace.
NamespaceResolved ==
  flags.name # "" /\ pc \notin {"flagParse", "checkSubject", "parseInterval", "splitNames",
                                 "getConfig", "newClient", "resolveNs", "fatal"}

\* C17: the namespace main resolves is the -namespace flag when that is not
\* empty, else the content of the namespace file when it is readable and
\* not empty, else "default"; it is never empty, it is the namespace of the
\* identifier the syncer holds, and every store request is issued against it.
C17_NamespaceNeverEmpty ==
  /\ \A n \in NamespaceFlags, f \in NamespaceFiles :
       resolveNamespace(n, f) = ExpectedNamespace(n, f)
  /\ NamespaceResolved =>
       /\ namespace # ""
       /\ \E f \in NamespaceFiles : namespace = ExpectedNamespace(flags.ns, f)
       /\ flags.ns # "" => namespace = flags.ns
  /\ sync # NoSyncer =>
       (sync.id.namespace = namespace /\ sync.id.namespace # "" /\ sync.id.name = flags.name)
  /\ \A r \in inflight : r.id = sync.id /\ r.id.namespace # ""

\* A get is outstanding against the namespace "default": no flag, and a
\* namespace file that is unreadable or empty.
C17_Witness ==
  /\ flags.ns = "" /\ namespace = "default"
  /\ inflight = {[op |-> "get", id |-> [name |-> flags.name, namespace |-> "default"]]}

\* The command line was read and is invalid: no subject, or an interval
\* that is given and is no duration.
InvalidConfig ==
  /\ pc # "flagParse"
  /\ \/ flags.subject = ""
     \/ flags.interval # "" /\ ParseDuration(flags.interval).err # "nil"

\* Nothing was read, generated, built, printed or requested.
NoEffectYet ==
  /\ hist = NoHist /\ nextKey = 1 /\ nt = NoNt /\ out = <<>>
  /\ ~clientset /\ namespace = "" /\ sync = NoSyncer /\ mode = "none"
  /\ cycle = 0 /\ inflight = {} /\ cur = NoCycle

\* C18: with an empty subject, or an interval that is given and does not
\* parse, main gets no further than its two checks and stops in log.Fatalf
\* with the message of the first check that fails; no CA file was read, no
\* key generated, no client built and no store request issued.
C18_InvalidConfigStopsBeforeEffects ==
  InvalidConfig =>
    /\ pc \in {"checkSubject", "parseInterval", "fatal"}
    /\ flags.subject = "" => pc \in {"checkSubject", "fatal"}
    /\ pc = "fatal" =>
         fatal = (IF flags.subject = "" THEN "Missing required -subject parameter"
                  ELSE "Parameter -interval was not a valid duration")
    /\ NoEffectYet

\* The process stopped on an interval that is no duration, a secret named.
C18_Witness ==
  /\ pc = "fatal" /\ flags.interval = "bogus" /\ flags.subject = SvcCN
  /\ flags.name = "tls" /\ fatal = "Parameter -interval was not a valid duration"
  /\ NoEffectYet

\* The -interval flag is given and parses to a duration other than zero.
IntervalNonZero ==
  /\ flags.interval # ""
  /\ ParseDuration(flags.interval).err = "nil"
  /\ ParseDuration(flags.interval).d # 0

\* C19: with a secret name, main enters the polling loop exactly when the
\* interval parses to a duration other than zero; without an interval, and
\* with one that parses to zero ("0s"), it calls sync once and ends, while
\* the loop never ends successfully and calls sync again after a cycle that
\* succeeded.
C19_ModeFollowsParsedInterval ==
  mode # "none" =>
    /\ flags.name # ""
    /\ (mode = "loop") = IntervalNonZero
    /\ (mode = "oneshot") = (syncInterval = 0)
    /\ flags.interval \in {"", "0s"} => mode = "oneshot"
    /\ mode = "oneshot" =>
         /\ cycle <= 1 /\ pc \notin {"sleeping"} /\ prev = NoCycle
         /\ Terminated => cycle = 1
         /\ (pc = "callSync") = (cycle = 0)
    /\ mode = "loop" =>
         /\ pc # "exit0"
         /\ (cycle >= 1 /\ cur.result = "ok") => pc \in {"syncRet", "sleeping", "callSync"}

\* -interval 0s: the process ended after its one cycle.
C19_Witness ==
  /\ flags.interval = "0s" /\ mode = "oneshot" /\ pc = "exit0"
  /\ syncInterval = 0 /\ cycle = 1 /\ hist.ops = <<"get", "update">>

====
